---- MODULE Spec2Model ----
(***************************************************************************)
(* A model of scripts/build_crosswalks.py: the crosswalk build between     *)
(* geography layers (dissolve by name, bounding-box prefilter, denoised    *)
(* intersection, area threshold, longform and wide tables, per-primary     *)
(* output files and the run-level metadata record).                        *)
(*                                                                         *)
(* Geometry.  A geometry is a finite set of cells <<x, y>> of a square     *)
(* lattice whose cells are CellSide feet wide.  The empty set is the empty *)
(* geometry.  union and intersection are those of sets, the area is the    *)
(* number of cells times the cell's area, the bounds are the closed        *)
(* bounding box in feet, and buffer(d) erodes (d < 0) or dilates (d > 0)   *)
(* by |d| feet with a square structuring element.  A percentage is the     *)
(* exact fraction [num, den] of the float the code computes.  A feature   *)
(* whose geometry is missing (None) is held with the empty geometry: the   *)
(* union of a group and the spatial index treat the two alike.             *)
(*                                                                         *)
(* Strings are ordered as Python orders them, by their rank in IdOrder and *)
(* NameOrder, which list the strings the model uses in ascending order.    *)
(***************************************************************************)
EXTENDS Integers, Sequences, FiniteSets, TLC

\* ------------------------------------------------------------------ bounds
\* The largest buffer distance, in cells, either way.
MaxBufferCells == 2
\* The thresholds (min-area-final) are 0, 50, ..., 50 * MaxAreaSteps sq ft.
MaxAreaSteps == 3
\* The largest --max-primaries cap.
MaxCap == 1

\* --------------------------------------------------------------- geometry
\* The side of a lattice cell, in feet.
CellSide == 10
CellArea == CellSide * CellSide

Rect(x0, x1, y0, y1) == { <<x, y>> : x \in x0..x1, y \in y0..y1 }

EmptyGeom == {}

\* geometry.is_empty
is_empty(g) == g = {}

\* geometry.area, in square feet
area(g) == Cardinality(g) * CellArea

Xs(g) == { c[1] : c \in g }
Ys(g) == { c[2] : c \in g }
MinOf(S) == CHOOSE m \in S : \A n \in S : m <= n
MaxOf(S) == CHOOSE m \in S : \A n \in S : m >= n
Max(a, b) == IF a >= b THEN a ELSE b

\* geometry.bounds of a non-empty geometry: (minx, miny, maxx, maxy) in feet
bounds(g) ==
  <<CellSide * MinOf(Xs(g)), CellSide * MinOf(Ys(g)),
    CellSide * (MaxOf(Xs(g)) + 1), CellSide * (MaxOf(Ys(g)) + 1)>>

\* Two closed boxes intersect (boxes that only touch do).
BoxesIntersect(a, b) ==
  /\ a[1] <= b[3] /\ b[1] <= a[3]
  /\ a[2] <= b[4] /\ b[2] <= a[4]

Nbhd(k) == { <<dx, dy>> : dx \in (0 - k)..k, dy \in (0 - k)..k }

Dilate(g, k) == { <<c[1] + d[1], c[2] + d[2]>> : c \in g, d \in Nbhd(k) }
Erode(g, k) == { c \in g : \A d \in Nbhd(k) : <<c[1] + d[1], c[2] + d[2]>> \in g }

\* geometry.buffer(distance), distance in feet
buffer(g, distance) ==
  IF distance < 0 THEN Erode(g, (0 - distance) \div CellSide)
  ELSE Dilate(g, distance \div CellSide)

\* geometry.intersection(other)
intersection(g, h) == g \cap h

\* ------------------------------------------------------------ string order
NullId == "<null>"
IdOrder == <<"None", "cc_upcoming", "cd", "pp", "zz">>
NameOrder == <<"", "A", "B">>

RankIn(order, s) == CHOOSE i \in 1..Len(order) : order[i] = s
IdLess(a, b) == RankIn(IdOrder, a) < RankIn(IdOrder, b)
NameLess(a, b) == RankIn(NameOrder, a) < RankIn(NameOrder, b)

\* str(v) of an id read from the collection: a missing id prints as "None"
StrId(v) == IF v = NullId THEN "None" ELSE v

\* sorted(set) of ids and of names, as a sequence
SortedIds(S) == SelectSeq(IdOrder, LAMBDA s : s \in S)
SortedNames(S) == SelectSeq(NameOrder, LAMBDA s : s \in S)

Range(s) == { s[i] : i \in 1..Len(s) }

\* -------------------------------------------------------------- data frames
\* gdf[gdf['id'] == an_id]: the rows of a frame with that id, in order
RowsWithId(geodf, an_id) == SelectSeq(geodf, LAMBDA f : f.id = an_id)

UnionOf(geoms) == UNION geoms

\* dissolve_by_name had it not grouped: one region per feature
dissolve_by_name_ungrouped(geodf) ==
  [ i \in 1..Len(geodf) |->
      [ id |-> geodf[i].id, nameCol |-> geodf[i].nameCol, geometry |-> geodf[i].geometry ] ]

\* dissolve_by_name had a null or empty part emptied the whole region
dissolve_by_name_poisoned(geodf) ==
  IF geodf = <<>> THEN <<>>
  ELSE LET names == SortedNames({ f.nameCol : f \in Range(geodf) })
       IN  [ i \in 1..Len(names) |->
              LET group == SelectSeq(geodf, LAMBDA f : f.nameCol = names[i])
              IN  [ id |-> group[1].id,
                    nameCol |-> names[i],
                    geometry |-> IF \E f \in Range(group) : f.geometry = {} THEN {}
                                 ELSE UnionOf({ f.geometry : f \in Range(group) }) ] ]

\* dissolve_by_name had aggfunc='first' also taken the geometry of a group
dissolve_by_name_first(geodf) ==
  IF geodf = <<>> THEN <<>>
  ELSE LET names == SortedNames({ f.nameCol : f \in Range(geodf) })
       IN  [ i \in 1..Len(names) |->
              LET group == SelectSeq(geodf, LAMBDA f : f.nameCol = names[i])
              IN  [ id |-> group[1].id, nameCol |-> names[i], geometry |-> group[1].geometry ] ]

\* geodf.dissolve(by='nameCol', as_index=False, aggfunc='first')[['id','nameCol','geometry']]
dissolve_by_name(geodf) ==
  IF geodf = <<>> THEN <<>>
  ELSE LET names == SortedNames({ f.nameCol : f \in Range(geodf) })
       IN  [ i \in 1..Len(names) |->
              LET group == SelectSeq(geodf, LAMBDA f : f.nameCol = names[i])
              IN  [ id |-> group[1].id,
                    nameCol |-> names[i],
                    geometry |-> UnionOf({ f.geometry : f \in Range(group) }) ] ]

\* union_by_name had it taken the first geometry of a group for its union
union_by_name_first(geodf) ==
  IF geodf = <<>> THEN <<>>
  ELSE LET names == SortedNames({ f.nameCol : f \in Range(geodf) })
       IN  [ i \in 1..Len(names) |->
              <<names[i], SelectSeq(geodf, LAMBDA f : f.nameCol = names[i])[1].geometry>> ]

\* [(str(name), group.geometry.union_all()) for name, group in geodf.groupby('nameCol')]
union_by_name(geodf) ==
  IF geodf = <<>> THEN <<>>
  ELSE LET names == SortedNames({ f.nameCol : f \in Range(geodf) })
       IN  [ i \in 1..Len(names) |->
              <<names[i],
                UnionOf({ f.geometry : f \in { r \in Range(geodf) : r.nameCol = names[i] } })>> ]

\* primary_dissolved.head(max_primaries) when a positive cap is given
\* (max_primaries is <<>> for None and <<n>> for the integer n)
head(frame, max_primaries) ==
  IF max_primaries # <<>> /\ max_primaries[1] > 0
  THEN SubSeq(frame, 1, IF max_primaries[1] < Len(frame) THEN max_primaries[1] ELSE Len(frame))
  ELSE frame

\* all_gdf.iloc[list(sindex.intersection(p_geom_orig.bounds))]: the rows whose
\* bounding box intersects the primary region's; the index holds no empty geometry
candidate_gdf(all_gdf, p_geom_orig) ==
  SelectSeq(all_gdf, LAMBDA f :
    /\ ~is_empty(f.geometry)
    /\ BoxesIntersect(bounds(f.geometry), bounds(p_geom_orig)))

\* p_geom_for_intersection had it taken the distance with the other sign
p_geom_for_intersection_flipped(p_geom_orig, buffer_feet) ==
  IF buffer_feet # 0 THEN buffer(p_geom_orig, 0 - buffer_feet) ELSE p_geom_orig

\* p_geom_orig.buffer(buffer_feet) if buffer_feet else p_geom_orig
p_geom_for_intersection(p_geom_orig, buffer_feet) ==
  IF buffer_feet # 0 THEN buffer(p_geom_orig, buffer_feet) ELSE p_geom_orig

\* float(inter_geom.area) if not inter_geom.is_empty else 0.0
inter_area(p_geom, t_union) ==
  LET inter_geom == intersection(p_geom, t_union)
  IN  IF ~is_empty(inter_geom) THEN area(inter_geom) ELSE 0

RECURSIVE Gcd(_, _)
Gcd(a, b) == IF b = 0 THEN a ELSE Gcd(b, a % b)

\* perc had it divided the other way round: (p_area / inter_area) * 100.0
perc_inverted(an_inter_area, a_p_area) ==
  LET g == Gcd(a_p_area * 100, an_inter_area)
  IN  [num |-> (a_p_area * 100) \div g, den |-> an_inter_area \div g]

\* perc = (inter_area / p_area) * 100.0: the value as a fraction in lowest terms
perc(an_inter_area, a_p_area) ==
  LET g == Gcd(an_inter_area * 100, a_p_area)
  IN  [num |-> (an_inter_area * 100) \div g, den |-> a_p_area \div g]

\* comparisons of two such floats
PercLess(p, q) == p.num * q.den < q.num * p.den

\* longform_rejects had it compared with "<": a pair at the bound is kept
longform_rejects_below(an_inter_area, min_intersection_area_final, epsilon) ==
  an_inter_area < Max(min_intersection_area_final, epsilon)

\* longform_rejects had it compared the other way round: a large overlap is dropped
longform_rejects_inverted(an_inter_area, min_intersection_area_final, epsilon) ==
  an_inter_area >= Max(min_intersection_area_final, epsilon)

\* the longform test "if inter_area <= max(min_intersection_area_final, epsilon): continue"
longform_rejects(an_inter_area, min_intersection_area_final, epsilon) ==
  an_inter_area <= Max(min_intersection_area_final, epsilon)

\* wide_keeps had it compared with ">=": a name at the bound is kept
wide_keeps_at_bound(an_inter_area, min_intersection_area_final, epsilon) ==
  an_inter_area >= Max(min_intersection_area_final, epsilon)

\* the wide test "if inter_area > max(min_intersection_area_final, epsilon)"
wide_keeps(an_inter_area, min_intersection_area_final, epsilon) ==
  an_inter_area > Max(min_intersection_area_final, epsilon)

\* the longform guard "if p_area <= epsilon: continue"
degenerate_primary(a_p_area, epsilon) == a_p_area <= epsilon

\* ---------------------------------------------------------------- longform
\* longform_record had it taken the areas of the buffered primary geometry
longform_record_buffered(primary_id, p_name, other_id, t_name, p_geom_orig, p_geom_int, t_union) ==
  [ Primary_Geography_ID |-> primary_id,
    Primary_Geography_NameCol |-> p_name,
    Other_Geography_ID |-> other_id,
    Other_Geography_NameCol |-> t_name,
    Primary_Area |-> area(p_geom_int),
    Intersection_Area |-> inter_area(p_geom_int, t_union),
    Percentage_Overlap |-> perc(inter_area(p_geom_int, t_union), area(p_geom_int)) ]

\* records.append({...}) for a pair that passed the threshold
longform_record(primary_id, p_name, other_id, t_name, p_geom_orig, p_geom_int, t_union) ==
  [ Primary_Geography_ID |-> primary_id,
    Primary_Geography_NameCol |-> p_name,
    Other_Geography_ID |-> other_id,
    Other_Geography_NameCol |-> t_name,
    Primary_Area |-> area(p_geom_orig),
    Intersection_Area |-> inter_area(p_geom_int, t_union),
    Percentage_Overlap |-> perc(inter_area(p_geom_int, t_union), area(p_geom_orig)) ]

\* longform_pairs had it not skipped the primary's own id
longform_pairs_with_self(candidates, primary_id, prow, other_id, buffer_feet, min_area, epsilon) ==
  LET subset == RowsWithId(candidates, other_id)
      unions == union_by_name(subset)
      p_int == p_geom_for_intersection(prow.geometry, buffer_feet)
      kept == SelectSeq(unions, LAMBDA u :
                /\ ~is_empty(u[2])
                /\ ~longform_rejects(inter_area(p_int, u[2]), min_area, epsilon))
  IN  IF subset = <<>> THEN <<>>
      ELSE [ i \in 1..Len(kept) |->
               longform_record(primary_id, prow.nameCol, other_id, kept[i][1],
                               prow.geometry, p_int, kept[i][2]) ]

\* the loop over union_by_name(subset) for one primary region and one other id
longform_pairs(candidates, primary_id, prow, other_id, buffer_feet, min_area, epsilon) ==
  LET subset == RowsWithId(candidates, other_id)
      unions == union_by_name(subset)
      p_int == p_geom_for_intersection(prow.geometry, buffer_feet)
      kept == SelectSeq(unions, LAMBDA u :
                /\ ~is_empty(u[2])
                /\ ~longform_rejects(inter_area(p_int, u[2]), min_area, epsilon))
  IN  IF other_id = primary_id \/ subset = <<>> THEN <<>>
      ELSE [ i \in 1..Len(kept) |->
               longform_record(primary_id, prow.nameCol, other_id, kept[i][1],
                               prow.geometry, p_int, kept[i][2]) ]

\* the body of "for _, prow in primary_dissolved.iterrows()" of the longform build
longform_region(all_gdf, primary_id, prow, other_ids, buffer_feet, min_area, epsilon) ==
  IF is_empty(prow.geometry) \/ degenerate_primary(area(prow.geometry), epsilon) THEN <<>>
  ELSE LET candidates == candidate_gdf(all_gdf, prow.geometry)
           acc[k \in 0..Len(other_ids)] ==
             IF k = 0 THEN <<>>
             ELSE acc[k - 1] \o longform_pairs(candidates, primary_id, prow, other_ids[k],
                                               buffer_feet, min_area, epsilon)
       IN  acc[Len(other_ids)]

\* row a is placed no later than row b by
\* sort_values(by=[primary name, other id, percentage], ascending=[True, True, False])
RowLeq(a, b) ==
  \/ NameLess(a.Primary_Geography_NameCol, b.Primary_Geography_NameCol)
  \/ /\ a.Primary_Geography_NameCol = b.Primary_Geography_NameCol
     /\ \/ IdLess(a.Other_Geography_ID, b.Other_Geography_ID)
        \/ /\ a.Other_Geography_ID = b.Other_Geography_ID
           /\ ~PercLess(a.Percentage_Overlap, b.Percentage_Overlap)

\* sort_values had it sorted every key ascending (the default of sort_values)
sort_values_all_ascending(records) ==
  LET Leq(a, b) ==
        \/ NameLess(a.Primary_Geography_NameCol, b.Primary_Geography_NameCol)
        \/ /\ a.Primary_Geography_NameCol = b.Primary_Geography_NameCol
           /\ \/ IdLess(a.Other_Geography_ID, b.Other_Geography_ID)
              \/ /\ a.Other_Geography_ID = b.Other_Geography_ID
                 /\ ~PercLess(b.Percentage_Overlap, a.Percentage_Overlap)
      Insert(s, r) ==
        LET pos == IF \E i \in 1..Len(s) : ~Leq(s[i], r)
                   THEN MinOf({ i \in 1..Len(s) : ~Leq(s[i], r) }) ELSE Len(s) + 1
        IN  SubSeq(s, 1, pos - 1) \o <<r>> \o SubSeq(s, pos, Len(s))
      sorted[k \in 0..Len(records)] ==
        IF k = 0 THEN <<>> ELSE Insert(sorted[k - 1], records[k])
  IN  sorted[Len(records)]

\* df.sort_values(...): a stable sort
sort_values(records) ==
  LET Insert(s, r) ==
        LET pos == IF \E i \in 1..Len(s) : ~RowLeq(s[i], r)
                   THEN MinOf({ i \in 1..Len(s) : ~RowLeq(s[i], r) }) ELSE Len(s) + 1
        IN  SubSeq(s, 1, pos - 1) \o <<r>> \o SubSeq(s, pos, Len(s))
      sorted[k \in 0..Len(records)] ==
        IF k = 0 THEN <<>> ELSE Insert(sorted[k - 1], records[k])
  IN  sorted[Len(records)]

\* build_longform_for_primary: [warned, df]; warned tells that "No features for
\* primary id" was logged, df is the table (<<>> is the empty DataFrame)
build_longform_for_primary(all_gdf, primary_id, other_ids, buffer_feet, min_area, epsilon, max_primaries) ==
  LET primary_src == RowsWithId(all_gdf, primary_id)
      primary_dissolved == head(dissolve_by_name(primary_src), max_primaries)
      acc[k \in 0..Len(primary_dissolved)] ==
        IF k = 0 THEN <<>>
        ELSE acc[k - 1] \o longform_region(all_gdf, primary_id, primary_dissolved[k],
                                           other_ids, buffer_feet, min_area, epsilon)
  IN  IF primary_src = <<>> THEN [warned |-> TRUE, df |-> <<>>]
      ELSE [warned |-> FALSE, df |-> sort_values(acc[Len(primary_dissolved)])]

\* -------------------------------------------------------------------- wide
\* A cell is the string ";".join(...), held as its sequence of tokens: each
\* non-empty name is one token, the empty name has none, ";" is the delimiter.
Chars(name) == IF name = "" THEN <<>> ELSE <<name>>

join(names) ==
  LET acc[k \in 0..Len(names)] ==
        IF k = 0 THEN <<>>
        ELSE IF k = 1 THEN Chars(names[1])
        ELSE acc[k - 1] \o <<";">> \o Chars(names[k])
  IN  acc[Len(names)]

\* keep_names for one primary region and one other id
keep_names(candidates, p_int, other_id, min_area, epsilon) ==
  LET subset == RowsWithId(candidates, other_id)
      kept == SelectSeq(union_by_name(subset), LAMBDA u :
                wide_keeps(inter_area(p_int, u[2]), min_area, epsilon))
  IN  [ i \in 1..Len(kept) |-> kept[i][1] ]

\* record[other_id] = ";".join(sorted(set(keep_names))) if keep_names else ""
wide_cell(names) ==
  IF names # <<>> THEN join(SortedNames(Range(names))) ELSE <<>>

\* the columns of the wide table: [primary_id] + sorted(g for g in other_ids if g != primary_id)
wide_cols(primary_id, other_ids) ==
  LET others == SelectSeq(other_ids, LAMBDA g : g # primary_id)
      \* sorted(list) keeps the repetitions of the list
      sorted_others[r \in 0..Len(IdOrder)] ==
        IF r = 0 THEN <<>>
        ELSE sorted_others[r - 1] \o SelectSeq(others, LAMBDA g : g = IdOrder[r])
  IN  <<primary_id>> \o sorted_others[Len(IdOrder)]

\* one row of the wide table (df[cols] applied to the record of one primary region)
wide_region(all_gdf, primary_id, prow, other_ids, buffer_feet, min_area, epsilon) ==
  LET candidates == candidate_gdf(all_gdf, prow.geometry)
      p_int == p_geom_for_intersection(prow.geometry, buffer_feet)
      cols == wide_cols(primary_id, other_ids)
  IN  [ j \in 1..Len(cols) |->
          IF j = 1 THEN prow.nameCol
          ELSE wide_cell(keep_names(candidates, p_int, cols[j], min_area, epsilon)) ]

\* the guard of the wide loop: "if p_geom_orig is None or p_geom_orig.is_empty: continue"
wide_skips(prow) == is_empty(prow.geometry)

\* build_wide_for_primary: [columns, rows]; a row holds the primary region's name
\* and then one cell per other column; the empty DataFrame has neither
build_wide_for_primary(all_gdf, primary_id, other_ids, buffer_feet, min_area, epsilon, max_primaries) ==
  LET primary_src == RowsWithId(all_gdf, primary_id)
      primary_dissolved == head(dissolve_by_name(primary_src), max_primaries)
      regions == SelectSeq(primary_dissolved, LAMBDA prow : ~wide_skips(prow))
  IN  IF primary_src = <<>> \/ regions = <<>>
      THEN [columns |-> <<>>, rows |-> <<>>]
      ELSE [columns |-> wide_cols(primary_id, other_ids),
            rows |-> [ i \in 1..Len(regions) |->
                        wide_region(all_gdf, primary_id, regions[i], other_ids,
                                    buffer_feet, min_area, epsilon) ] ]

\* -------------------------------------------------------------------- main
VARIABLES
  gdf,          \* the boundary collection read from --boundaries, in EPSG:2263
  args,         \* the parsed command line
  pc,           \* where main is
  primary_ids,  \* the resolved primary ids
  target_ids,   \* the resolved target ids
  meta,         \* the metadata record main builds before the loop
  idx,          \* the position of the loop over primary_ids
  lf,           \* the longform table built last
  wf,           \* the wide table built last
  files,        \* the files of the run directory: path -> content
  log           \* the log records, in order

vars == <<gdf, args, pc, primary_ids, target_ids, meta, idx, lf, wf, files, log>>

\* The state of make_run.py and of its bounds stage, which the build leaves alone.
VARIABLES
  mr_pc,               \* where make_run.main is
  zip_artifacts,       \* make_run's --zip-artifacts
  latest,              \* make_run's latest run directory (<<>> before it is looked for)
  crosswalks_cmd,      \* the command of the crosswalk stage (<<>> before it is started)
  outputs,             \* the directories under outputs/: name -> the files in it
  gb_pc,               \* where the generate_all_bounds.py subprocess is
  gb_rc,               \* its exit status
  ds_idx,              \* the position of its loop over datasets
  result,              \* what process_dataset returned last (<<>> before the first call)
  all_processed_gdfs,  \* the frames of the datasets that were processed
  failed_datasets,     \* the datasets that failed
  run_meta,            \* the run metadata: the run id and one entry per dataset
  run_dir              \* the run directory the subprocess made (<<>> when none)

run_vars == <<mr_pc, zip_artifacts, latest, crosswalks_cmd, outputs, gb_pc, gb_rc, ds_idx,
              result, all_processed_gdfs, failed_datasets, run_meta, run_dir>>

NoMeta == [buffer_feet |-> 0, min_intersection_area_final |-> 0, epsilon |-> 0,
           exclude_ids |-> <<>>, primary_ids |-> <<>>, target_ids |-> <<>>]
EmptyWide == [columns |-> <<>>, rows |-> <<>>]

\* files with one more file written (an existing path is overwritten)
WriteFile(fs, path, content) ==
  [ q \in DOMAIN fs \cup {path} |-> IF q = path THEN content ELSE fs[q] ]

\* lf_empty had main not looked at the table before writing it
lf_empty_never(df) == FALSE

\* DataFrame.empty
lf_empty(df) == df = <<>>
wf_empty(df) == df.rows = <<>> \/ df.columns = <<>>

\* ResolveIds had it taken --targets as given, without the filter by ids
ResolveIds_targets_unfiltered ==
  /\ pc = "resolve"
  /\ LET all_ids == SortedIds({ StrId(f.id) : f \in Range(gdf) })
         ids == SelectSeq(all_ids, LAMBDA gid : gid \notin Range(args.exclude_ids))
         p_ids == IF args.primary_only # <<>>
                  THEN SelectSeq(args.primary_only, LAMBDA gid : gid \in Range(ids))
                  ELSE ids
         t_ids == IF args.targets # <<>> THEN args.targets ELSE ids
     IN  /\ primary_ids' = p_ids
         /\ target_ids' = t_ids
         /\ meta' = [buffer_feet |-> args.buffer_feet,
                     min_intersection_area_final |-> args.min_area_final,
                     epsilon |-> args.epsilon,
                     exclude_ids |-> args.exclude_ids,
                     primary_ids |-> p_ids,
                     target_ids |-> t_ids]
         /\ pc' = IF p_ids = <<>> THEN "save_meta" ELSE "build_longform"
  /\ idx' = 1
  /\ UNCHANGED <<gdf, args, lf, wf, files, log>>
  /\ UNCHANGED run_vars

\* lines 203-229: the geography ids, the primary and target ids, the metadata
ResolveIds ==
  /\ pc = "resolve"
  /\ LET all_ids == SortedIds({ StrId(f.id) : f \in Range(gdf) })
         ids == SelectSeq(all_ids, LAMBDA gid : gid \notin Range(args.exclude_ids))
         p_ids == IF args.primary_only # <<>>
                  THEN SelectSeq(args.primary_only, LAMBDA gid : gid \in Range(ids))
                  ELSE ids
         t_ids == IF args.targets # <<>>
                  THEN SelectSeq(args.targets, LAMBDA gid : gid \in Range(ids))
                  ELSE ids
     IN  /\ primary_ids' = p_ids
         /\ target_ids' = t_ids
         /\ meta' = [buffer_feet |-> args.buffer_feet,
                     min_intersection_area_final |-> args.min_area_final,
                     epsilon |-> args.epsilon,
                     exclude_ids |-> args.exclude_ids,
                     primary_ids |-> p_ids,
                     target_ids |-> t_ids]
         /\ pc' = IF p_ids = <<>> THEN "save_meta" ELSE "build_longform"
  /\ idx' = 1
  /\ UNCHANGED <<gdf, args, lf, wf, files, log>>
  /\ UNCHANGED run_vars

\* lines 233-242: build the longform table of primary_ids[idx]
BuildLongform ==
  /\ pc = "build_longform"
  /\ LET primary_id == primary_ids[idx]
         built == build_longform_for_primary(gdf, primary_id, target_ids, args.buffer_feet,
                    args.min_area_final, args.epsilon, args.max_primaries)
     IN  /\ lf' = built.df
         /\ log' = log \o <<<<"INFO", "Building longform for primary", primary_id>>>>
                       \o (IF built.warned
                           THEN <<<<"WARNING", "No features for primary id", primary_id>>>>
                           ELSE <<>>)
  /\ pc' = "save_longform"
  /\ UNCHANGED <<gdf, args, primary_ids, target_ids, meta, idx, wf, files>>
  /\ UNCHANGED run_vars

\* lines 243-248: lf.to_csv when the table is not empty
SaveLongform ==
  /\ pc = "save_longform"
  /\ LET primary_id == primary_ids[idx]
     IN  IF ~lf_empty(lf)
         THEN /\ files' = WriteFile(files, <<"longform", primary_id>>, lf)
              /\ log' = Append(log, <<"INFO", "Saved longform", primary_id>>)
         ELSE /\ files' = files
              /\ log' = Append(log, <<"INFO", "No longform rows produced for primary", primary_id>>)
  /\ pc' = "build_wide"
  /\ UNCHANGED <<gdf, args, primary_ids, target_ids, meta, idx, lf, wf>>
  /\ UNCHANGED run_vars

\* line 245: lf.to_csv raises (the disk is full, the path is not writable); main
\* has no handler, so the exception ends the process
SaveLongformFails ==
  /\ pc = "save_longform"
  /\ ~lf_empty(lf)
  /\ pc' = "crashed"
  /\ UNCHANGED <<gdf, args, primary_ids, target_ids, meta, idx, lf, wf, files, log>>
  /\ UNCHANGED run_vars

\* lines 250-259: build the wide table of primary_ids[idx]
BuildWide ==
  /\ pc = "build_wide"
  /\ LET primary_id == primary_ids[idx]
     IN  /\ wf' = build_wide_for_primary(gdf, primary_id, target_ids, args.buffer_feet,
                    args.min_area_final, args.epsilon, args.max_primaries)
         /\ log' = Append(log, <<"INFO", "Building wide for primary", primary_id>>)
  /\ pc' = "save_wide"
  /\ UNCHANGED <<gdf, args, primary_ids, target_ids, meta, idx, lf, files>>
  /\ UNCHANGED run_vars

\* lines 260-265 and the loop's step: wf.to_csv when the table is not empty
SaveWide ==
  /\ pc = "save_wide"
  /\ LET primary_id == primary_ids[idx]
     IN  IF ~wf_empty(wf)
         THEN /\ files' = WriteFile(files, <<"wide", primary_id>>, wf)
              /\ log' = Append(log, <<"INFO", "Saved wide", primary_id>>)
         ELSE /\ files' = files
              /\ log' = Append(log, <<"INFO", "No wide rows produced for primary", primary_id>>)
  /\ idx' = idx + 1
  /\ pc' = IF idx < Len(primary_ids) THEN "build_longform" ELSE "save_meta"
  /\ UNCHANGED <<gdf, args, primary_ids, target_ids, meta, lf, wf>>
  /\ UNCHANGED run_vars

\* line 262: wf.to_csv raises
SaveWideFails ==
  /\ pc = "save_wide"
  /\ ~wf_empty(wf)
  /\ pc' = "crashed"
  /\ UNCHANGED <<gdf, args, primary_ids, target_ids, meta, idx, lf, wf, files, log>>
  /\ UNCHANGED run_vars

\* lines 267-271: the metadata record is written
SaveMeta ==
  /\ pc = "save_meta"
  /\ files' = WriteFile(files, <<"crosswalks_meta", "json">>, meta)
  /\ log' = Append(log, <<"INFO", "Saved crosswalks meta", "crosswalks_meta.json">>)
  /\ pc' = "done"
  /\ UNCHANGED <<gdf, args, primary_ids, target_ids, meta, idx, lf, wf>>
  /\ UNCHANGED run_vars

\* lines 269-270: open or json.dump raises
SaveMetaFails ==
  /\ pc = "save_meta"
  /\ pc' = "crashed"
  /\ UNCHANGED <<gdf, args, primary_ids, target_ids, meta, idx, lf, wf, files, log>>
  /\ UNCHANGED run_vars

Next ==
  \/ ResolveIds
  \/ BuildLongform
  \/ SaveLongform
  \/ SaveLongformFails
  \/ BuildWide
  \/ SaveWide
  \/ SaveWideFails
  \/ SaveMeta
  \/ SaveMetaFails

\* ------------------------------------------------ generate_all_bounds.py
\* The datasets of the bounds stage: the first MaxDatasets of a DCP zip with a
\* cycle letter, a GeoJSON resource and a shapefile export with a nameAlt.  The
\* flags stand for the tests the code makes on the url.
MaxDatasets == 2
AllDatasets ==
  << [id |-> "cd", url |-> "dcp/bytes/nycd_25a.zip", newer_url |-> "dcp/bytes/nycd_25b.zip",
      geojson |-> FALSE, dcp |-> TRUE, has_alt |-> FALSE],
     [id |-> "bid", url |-> "resource/7jdm-inj8.geojson", newer_url |-> "",
      geojson |-> TRUE, dcp |-> FALSE, has_alt |-> FALSE],
     [id |-> "dsny", url |-> "api/geospatial/i6mn-amj2", newer_url |-> "",
      geojson |-> FALSE, dcp |-> FALSE, has_alt |-> TRUE] >>
datasets == SubSeq(AllDatasets, 1, MaxDatasets)

\* What the network, the files and the libraries do while one dataset is
\* processed: one value per step of process_dataset that can go either way.
\* The steps after a failing one do not happen; they are held as if they went well.
Outcome(c, d, f, r, k, g, st, a) ==
  [cycle |-> c, download |-> d, fallback |-> f, read |-> r, crs |-> k,
   geometry_col |-> g, standardize |-> st, alt_col |-> a]
Cycles == {"same", "newer", "raises"}
Outcomes ==
  { Outcome(c, "request_exception", f, "ok", "epsg4326", "geometry", "ok", TRUE) :
      c \in Cycles, f \in {"absent", "unreadable"} }
  \cup
  { Outcome(c, d[1], d[2], r, "epsg4326", "geometry", "ok", TRUE) :
      c \in Cycles, d \in {<<"ok", "absent">>, <<"request_exception", "readable">>},
      r \in {"raises", "bad_zip", "no_shp", "shp_not_extracted", "file_not_found",
             "setup_raises", "none"} }
  \cup
  { Outcome(c, "ok", "absent", "ok", k, "geometry", "ok", TRUE) :
      c \in Cycles, k \in {"other_raises", "missing_raises"} }
  \cup
  { Outcome(c, "ok", "absent", "ok", k, "absent", "ok", TRUE) :
      c \in Cycles, k \in {"epsg4326", "other", "missing"} }
  \cup
  { Outcome(c, "ok", "absent", "ok", k, g, st, TRUE) :
      c \in Cycles, k \in {"epsg4326", "other", "missing"},
      g \in {"geometry", "the_geom"}, st \in {"key_error", "raises"} }
  \cup
  { Outcome(c, "ok", "absent", "ok", k, g, "ok", a) :
      c \in Cycles, k \in {"epsg4326", "other", "missing"},
      g \in {"geometry", "the_geom"}, a \in BOOLEAN }

\* failed had a return path left the status and the error text as they were
failed_status_unset(ds_meta, status, text) == [gdf |-> <<>>, meta |-> ds_meta]

\* meta["status"] = status; meta["error"] = text; return None, meta
\* (None is <<>>, a value v that is not None is <<v>>)
failed(ds_meta, status, text) ==
  [gdf |-> <<>>, meta |-> [ds_meta EXCEPT !.status = status, !.error = <<text>>]]

\* lines 418-471: the standardized frame, or the failure of the standardization
standardize(dataset_info, o, ds_meta) ==
  IF o.geometry_col = "absent"
  THEN failed(ds_meta, "geometry_column_missing", "geometry column not found")
  ELSE IF o.standardize = "key_error" THEN failed(ds_meta, "standardize_key_error", "str(e)")
  ELSE IF o.standardize = "raises"
  THEN failed(ds_meta, "standardize_unexpected_error", "str(e)")
  ELSE [gdf |-> << [id |-> dataset_info.id,
                    columns |-> IF dataset_info.has_alt /\ o.alt_col
                                THEN <<"id", "nameCol", "nameAlt", "geometry">>
                                ELSE <<"id", "nameCol", "geometry">>] >>,
        meta |-> [ds_meta EXCEPT !.status = "ok"]]

\* lines 387-416: the frame is there and is reprojected to EPSG:4326
reproject(dataset_info, o, ds_meta) ==
  IF o.read = "none"
  THEN failed(ds_meta, "no_gdf_pre_reproject", "gdf None before reprojection")
  ELSE IF o.crs = "missing_raises" THEN failed(ds_meta, "crs_reproject_error", "str(crs_e)")
  ELSE IF o.crs = "other_raises" THEN failed(ds_meta, "reproject_error", "str(e)")
  ELSE standardize(dataset_info, o, ds_meta)

\* lines 293-385: the shapefile is read from the zip
read_zip(dataset_info, o, ds_meta) ==
  CASE o.read = "setup_raises" -> failed(ds_meta, "unexpected_shapefile_error", "str(e)")
    [] o.read = "bad_zip" -> failed(ds_meta, "bad_zip", "BadZipFile")
    [] o.read = "no_shp" -> failed(ds_meta, "no_shp_in_zip", "No .shp file in zip")
    [] o.read = "shp_not_extracted" ->
         failed(ds_meta, "extracted_shp_missing", "Extracted .shp path not determined")
    [] o.read = "file_not_found" -> failed(ds_meta, "extract_path_missing", "Extracted path missing")
    [] o.read = "raises" -> failed(ds_meta, "extract_or_read_error", "str(extract_read_e)")
    [] o.read = "none" -> failed(ds_meta, "no_gdf_post_zip", "gdf is None after zip processing")
    [] OTHER -> reproject(dataset_info, o, ds_meta)

\* process_dataset: [gdf, meta]
process_dataset(dataset_info, o) ==
  LET resolves == dataset_info.dcp /\ o.cycle # "raises"
      ds_meta == [ id |-> dataset_info.id,
                original_url |-> dataset_info.url,
                resolved_url |-> IF resolves /\ o.cycle = "newer"
                                 THEN dataset_info.newer_url ELSE dataset_info.url,
                cycle |-> IF ~resolves THEN <<>>
                          ELSE IF o.cycle = "newer" THEN <<"25b">> ELSE <<"25a">>,
                auto_detected |-> resolves /\ o.cycle = "newer",
                status |-> "pending",
                error |-> <<>> ]
  IN  IF dataset_info.geojson
      THEN IF o.read \notin {"ok", "none"} THEN failed(ds_meta, "geojson_read_error", "str(e)")
           ELSE reproject(dataset_info, o, ds_meta)
      ELSE IF o.download = "request_exception" /\ o.fallback # "readable"
           THEN failed(ds_meta, "download_error", "str(e)")
           ELSE read_zip(dataset_info, o, ds_meta)

\* The names of the run directories are UTC timestamps, which sort as they were
\* made: the earlier runs are 1..MaxEarlierRuns and this run is the next.
MaxEarlierRuns == 2
RunId == MaxEarlierRuns + 1

\* lines 476-501: the script starts, makes data/processed and the run metadata
GbStart ==
  /\ gb_pc = "start"
  /\ gb_pc' = "loop"
  /\ ds_idx' = 1
  /\ all_processed_gdfs' = <<>>
  /\ failed_datasets' = <<>>
  /\ run_meta' = [run_id |-> RunId, datasets |-> <<>>]
  /\ UNCHANGED <<mr_pc, zip_artifacts, latest, crosswalks_cmd, outputs, gb_rc, result, run_dir>>
  /\ UNCHANGED vars

\* lines 1-479: an import or os.makedirs raises; the interpreter exits with status 1
GbStartFails ==
  /\ gb_pc = "start"
  /\ gb_pc' = "exited"
  /\ gb_rc' = 1
  /\ UNCHANGED <<mr_pc, zip_artifacts, latest, crosswalks_cmd, outputs, ds_idx, result,
                 all_processed_gdfs, failed_datasets, run_meta, run_dir>>
  /\ UNCHANGED vars

\* lines 503-533: one turn of "for dataset_info in datasets"
ProcessDataset ==
  /\ gb_pc = "loop"
  /\ ds_idx <= Len(datasets)
  /\ \E o \in Outcomes : \E saved \in BOOLEAN :
       LET dataset_info == datasets[ds_idx]
           returned == process_dataset(dataset_info, o)
           entry == [ id |-> returned.meta.id,
                      original_url |-> returned.meta.original_url,
                      resolved_url |-> returned.meta.resolved_url,
                      cycle |-> returned.meta.cycle,
                      auto_detected |-> returned.meta.auto_detected,
                      status |-> returned.meta.status,
                      error |-> returned.meta.error ]
       IN  /\ result' = <<returned>>
           /\ run_meta' = [run_meta EXCEPT !.datasets = Append(@, entry)]
           /\ IF returned.gdf # <<>>
              THEN /\ all_processed_gdfs' = Append(all_processed_gdfs, returned.gdf[1])
                   /\ failed_datasets' =
                        IF saved THEN failed_datasets
                        ELSE Append(failed_datasets, <<dataset_info.id, "Save Error">>)
              ELSE /\ all_processed_gdfs' = all_processed_gdfs
                   /\ failed_datasets' =
                        Append(failed_datasets, <<dataset_info.id, "Processing Error">>)
  /\ ds_idx' = ds_idx + 1
  /\ gb_pc' = IF ds_idx < Len(datasets) THEN "loop" ELSE "combine"
  /\ UNCHANGED <<mr_pc, zip_artifacts, latest, crosswalks_cmd, outputs, gb_rc, run_dir>>
  /\ UNCHANGED vars

\* lines 536-599: the frames are combined and saved in a new run directory, or
\* a warning is logged when there is none; the script ends with status 0
Combine ==
  /\ gb_pc = "combine"
  /\ IF all_processed_gdfs # <<>>
     THEN \E saved_boundaries \in BOOLEAN : \E saved_meta \in BOOLEAN :
            /\ run_dir' = <<run_meta.run_id>>
            /\ outputs' =
                 [ d \in DOMAIN outputs \cup {run_meta.run_id} |->
                     (IF d \in DOMAIN outputs THEN outputs[d] ELSE {})
                     \cup (IF d = run_meta.run_id /\ saved_boundaries
                           THEN {"all_boundaries.geojson"} ELSE {})
                     \cup (IF d = run_meta.run_id /\ saved_meta
                           THEN {"run_meta.json"} ELSE {}) ]
     ELSE UNCHANGED <<run_dir, outputs>>
  /\ gb_pc' = "exited"
  /\ gb_rc' = 0
  /\ UNCHANGED <<mr_pc, zip_artifacts, latest, crosswalks_cmd, ds_idx, result,
                 all_processed_gdfs, failed_datasets, run_meta>>
  /\ UNCHANGED vars

\* lines 538-572: pd.concat, the validity test or os.makedirs(run_dir) raises
\* before the run directory is there; the interpreter exits with status 1
CombineFails ==
  /\ gb_pc = "combine"
  /\ all_processed_gdfs # <<>>
  /\ gb_pc' = "exited"
  /\ gb_rc' = 1
  /\ UNCHANGED <<mr_pc, zip_artifacts, latest, crosswalks_cmd, outputs, ds_idx, result,
                 all_processed_gdfs, failed_datasets, run_meta, run_dir>>
  /\ UNCHANGED vars

\* ------------------------------------------------------------ make_run.py
\* find_latest_run: the directory under outputs/ whose name sorts last, or None
find_latest_run(outputs_root) ==
  IF DOMAIN outputs_root = {} THEN <<>> ELSE <<MaxOf(DOMAIN outputs_root)>>

\* lines 55-59 and run, lines 14-16: the bounds stage subprocess is started
MrRunBounds ==
  /\ mr_pc = "bounds"
  /\ gb_pc = "idle"
  /\ gb_pc' = "start"
  /\ mr_pc' = "bounds_running"
  /\ UNCHANGED <<zip_artifacts, latest, crosswalks_cmd, outputs, gb_rc, ds_idx, result,
                 all_processed_gdfs, failed_datasets, run_meta, run_dir>>
  /\ UNCHANGED vars

\* run, lines 17-19: the subprocess has exited; a status other than 0 raises SystemExit
MrBoundsReturned ==
  /\ mr_pc = "bounds_running"
  /\ gb_pc = "exited"
  /\ mr_pc' = IF gb_rc # 0 THEN "exit" ELSE "find_latest"
  /\ UNCHANGED <<zip_artifacts, latest, crosswalks_cmd, outputs, gb_pc, gb_rc, ds_idx, result,
                 all_processed_gdfs, failed_datasets, run_meta, run_dir>>
  /\ UNCHANGED vars

\* lines 61-65: the latest run directory, or SystemExit when there is none
MrFindLatest ==
  /\ mr_pc = "find_latest"
  /\ latest' = find_latest_run(outputs)
  /\ mr_pc' = IF latest' = <<>> THEN "exit" ELSE "crosswalks"
  /\ UNCHANGED <<zip_artifacts, crosswalks_cmd, outputs, gb_pc, gb_rc, ds_idx, result,
                 all_processed_gdfs, failed_datasets, run_meta, run_dir>>
  /\ UNCHANGED vars

\* lines 67-76: build_crosswalks.py is run on the latest directory's boundaries
\* (the numeric options are handed through and are left out); it fails when the
\* boundaries file is not there, and may fail otherwise; a failure raises SystemExit
MrRunCrosswalks ==
  /\ mr_pc = "crosswalks"
  /\ crosswalks_cmd' = << [boundaries |-> <<latest[1], "all_boundaries.geojson">>,
                           run_dir |-> latest[1]] >>
  /\ \E ok \in BOOLEAN :
       IF ok /\ "all_boundaries.geojson" \in outputs[latest[1]]
       THEN /\ outputs' = [outputs EXCEPT ![latest[1]] = @ \cup {"crosswalks_meta.json"}]
            /\ mr_pc' = IF zip_artifacts THEN "zip" ELSE "done"
       ELSE /\ outputs' = outputs
            /\ mr_pc' = "exit"
  /\ UNCHANGED <<zip_artifacts, latest, gb_pc, gb_rc, ds_idx, result,
                 all_processed_gdfs, failed_datasets, run_meta, run_dir>>
  /\ UNCHANGED vars

\* lines 78-103: the two archives; zf.write raises when run_meta.json is not there
MrZipArtifacts ==
  /\ mr_pc = "zip"
  /\ outputs' = [outputs EXCEPT ![latest[1]] = @ \cup {"crosswalks.zip", "raw_geographies.zip"}]
  /\ mr_pc' = IF "run_meta.json" \in outputs[latest[1]] THEN "done" ELSE "exit"
  /\ UNCHANGED <<zip_artifacts, latest, crosswalks_cmd, gb_pc, gb_rc, ds_idx, result,
                 all_processed_gdfs, failed_datasets, run_meta, run_dir>>
  /\ UNCHANGED vars

NextRun ==
  \/ MrRunBounds
  \/ GbStart
  \/ GbStartFails
  \/ ProcessDataset
  \/ Combine
  \/ CombineFails
  \/ MrBoundsReturned
  \/ MrFindLatest
  \/ MrRunCrosswalks
  \/ MrZipArtifacts

\* ------------------------------------------------------------------ inputs
\* The shapes of the input features: the empty geometry, a 10 x 10 ft cell, a
\* 20 x 20 ft block that touches the cell's corner, a 20 x 20 ft block two cells to
\* the right of the cell that overlaps the first block, and a 100 x 100 ft square
\* that contains them all.
ShapeEmpty == EmptyGeom
ShapeCell == Rect(0, 0, 0, 0)
ShapeBlock == Rect(1, 2, 1, 2)
ShapeFar == Rect(2, 3, 0, 1)
ShapeSquare == Rect(0, 9, 0, 9)
Shapes == {ShapeEmpty, ShapeCell, ShapeBlock, ShapeFar, ShapeSquare}
\* A second cell, one cell away from the first.
ShapeCellApart == Rect(2, 2, 0, 0)

Feature(an_id, a_name, a_geom) == [id |-> an_id, nameCol |-> a_name, geometry |-> a_geom]

BufferChoices == {0 - CellSide, 0, MaxBufferCells * CellSide}
MinAreaChoices == {0, 50, 50 * MaxAreaSteps}
EpsilonChoices == {0, CellArea}
CapChoices == {<<>>} \cup { <<n>> : n \in 0..MaxCap }

Args(b, m, e, x, po, t, cap) ==
  [buffer_feet |-> b, min_area_final |-> m, epsilon |-> e, exclude_ids |-> x,
   primary_only |-> po, targets |-> t, max_primaries |-> cap]

\* Scenario A: two disjoint squares of one type and one name.
ScenarioA == <<Feature("cd", "A", ShapeCell), Feature("cd", "A", ShapeCellApart)>>

\* Collections of two, three or four features of two geography types; the last
\* family has a region without geometry on either side.
GeomCollections ==
  { <<Feature("cd", "A", s1), Feature(i2, n2, s2), Feature("pp", "A", s3)>> :
      s1 \in Shapes, i2 \in {"cd", "pp"}, n2 \in {"A", "B"}, s2 \in Shapes, s3 \in Shapes }
  \cup
  { <<Feature("cd", "A", s1), Feature("pp", "A", s3)>> : s1 \in Shapes, s3 \in Shapes }
  \cup
  { <<Feature("cd", "A", s1), Feature("cd", "B", s2),
      Feature("pp", "A", s3), Feature("pp", n4, s4)>> :
      s1 \in {ShapeEmpty, ShapeCell}, s2 \in {ShapeBlock, ShapeSquare},
      s3 \in {ShapeEmpty, ShapeFar}, n4 \in {"A", "B"}, s4 \in {ShapeFar, ShapeSquare} }
  \cup {ScenarioA}

\* Every buffer, threshold and epsilon, with the default command line otherwise.
InitGeom ==
  /\ gdf \in GeomCollections
  /\ args \in { Args(b, m, e, <<"cc_upcoming">>, <<>>, <<>>, <<>>) :
                  b \in BufferChoices, m \in MinAreaChoices, e \in EpsilonChoices }

\* Collections with an unnamed region, an excluded type and a feature without id.
CliCollections ==
  { <<Feature("cd", "A", ShapeSquare), Feature("pp", n2, ShapeBlock),
      Feature(i3, "B", ShapeCell)>> :
      n2 \in {"", "A"}, i3 \in {"pp", "cc_upcoming", NullId} }

\* Every --exclude-ids, --primary-only, --targets and --max-primaries of a few.
InitCli ==
  /\ gdf \in CliCollections
  /\ args \in { Args(0, 0, 0, x, po, t, cap) :
                  x \in {<<"cc_upcoming">>, <<>>, <<"pp">>},
                  po \in {<<>>, <<"cd">>, <<"zz", "cd">>, <<"cd", "pp", "cd">>,
                          <<"cc_upcoming", "pp">>},
                  t \in {<<>>, <<"pp">>, <<"pp", "cd", "pp">>, <<"cc_upcoming", "cd">>},
                  cap \in CapChoices }

\* make_run.py is not running.
RunIdle ==
  /\ mr_pc = "idle"
  /\ zip_artifacts = FALSE
  /\ latest = <<>>
  /\ crosswalks_cmd = <<>>
  /\ outputs = <<>>
  /\ gb_pc = "idle"
  /\ gb_rc = 0
  /\ ds_idx = 1
  /\ result = <<>>
  /\ all_processed_gdfs = <<>>
  /\ failed_datasets = <<>>
  /\ run_meta = [run_id |-> RunId, datasets |-> <<>>]
  /\ run_dir = <<>>

Init ==
  /\ (InitGeom \/ InitCli)
  /\ RunIdle
  /\ pc = "resolve"
  /\ primary_ids = <<>>
  /\ target_ids = <<>>
  /\ meta = NoMeta
  /\ idx = 1
  /\ lf = <<>>
  /\ wf = EmptyWide
  /\ files = <<>>
  /\ log = <<>>

Spec == Init /\ [][Next]_vars

\* The directories a run of make_run.py finds under outputs/: complete run
\* directories of earlier runs, the last of them possibly without its files.
EarlierOutputs ==
  { [ d \in 1..n |-> IF d = n /\ ~complete THEN {}
                     ELSE {"all_boundaries.geojson", "run_meta.json", "crosswalks_meta.json"} ] :
      n \in 0..MaxEarlierRuns, complete \in BOOLEAN }

\* make_run.py is started; build_crosswalks.py is its subprocess and its state
\* is not followed here.
InitRun ==
  /\ mr_pc = "bounds"
  /\ zip_artifacts \in BOOLEAN
  /\ latest = <<>>
  /\ crosswalks_cmd = <<>>
  /\ outputs \in EarlierOutputs
  /\ gb_pc = "idle"
  /\ gb_rc = 0
  /\ ds_idx = 1
  /\ result = <<>>
  /\ all_processed_gdfs = <<>>
  /\ failed_datasets = <<>>
  /\ run_meta = [run_id |-> RunId, datasets |-> <<>>]
  /\ run_dir = <<>>
  /\ gdf = <<>>
  /\ args = Args(0, 0, 0, <<>>, <<>>, <<>>, <<>>)
  /\ pc = "idle"
  /\ primary_ids = <<>>
  /\ target_ids = <<>>
  /\ meta = NoMeta
  /\ idx = 1
  /\ lf = <<>>
  /\ wf = EmptyWide
  /\ files = <<>>
  /\ log = <<>>

SpecRun == InitRun /\ [][NextRun]_run_vars

\* ------------------------------------------------------------------ claims
\* The primary id whose tables lf and wf hold, and when they hold them.
cur == primary_ids[idx]
LfBuilt == pc \in {"save_longform", "build_wide", "save_wide"}
WfBuilt == pc = "save_wide"

\* The union of all features of the collection with an id and a name.
RegionGeom(an_id, a_name) ==
  UNION { f.geometry : f \in { r \in Range(gdf) : r.id = an_id /\ r.nameCol = a_name } }
PrimaryNames(an_id) == { f.nameCol : f \in { r \in Range(gdf) : r.id = an_id } }

\* The regions of the current primary id that the longform loop does not skip.
Regions == head(dissolve_by_name(RowsWithId(gdf, cur)), args.max_primaries)
Processed ==
  { r \in Range(Regions) : ~is_empty(r.geometry) /\ area(r.geometry) > args.epsilon }
Bound == Max(args.min_area_final, args.epsilon)
PInt(prow) == p_geom_for_intersection(prow.geometry, args.buffer_feet)

HasRow(df, p_name, other_id, t_name) ==
  \E i \in 1..Len(df) :
    /\ df[i].Primary_Geography_NameCol = p_name
    /\ df[i].Other_Geography_ID = other_id
    /\ df[i].Other_Geography_NameCol = t_name

\* The names a reader finds in a cell: none in the empty string, else the parts
\* between the delimiters.
Split(cell) ==
  IF cell = <<>> THEN {}
  ELSE { cell[i] : i \in { j \in 1..Len(cell) : cell[j] # ";" } }
       \cup (IF \/ cell[1] = ";"
                \/ cell[Len(cell)] = ";"
                \/ \E j \in 1..(Len(cell) - 1) : cell[j] = ";" /\ cell[j + 1] = ";"
             THEN {""} ELSE {})

LongNames(p_name, other_id) ==
  { lf[i].Other_Geography_NameCol :
      i \in { j \in 1..Len(lf) : /\ lf[j].Primary_Geography_NameCol = p_name
                                 /\ lf[j].Other_Geography_ID = other_id } }
WideNames(p_name, other_id) ==
  UNION { Split(wf.rows[i][j]) :
            i \in { k \in 1..Len(wf.rows) : wf.rows[k][1] = p_name },
            j \in { k \in 2..Len(wf.columns) : wf.columns[k] = other_id } }

\* C1: the longform rows and the wide cell of a primary region and another
\* geography id name the same regions.
C1_SameMembership ==
  WfBuilt =>
    \A p_name \in Range(NameOrder) : \A other_id \in Range(IdOrder) \ {cur} :
      LongNames(p_name, other_id) = WideNames(p_name, other_id)

\* Scenario B: a 100 x 100 ft region that contains a 10 x 10 ft region of another type.
ScenarioB == <<Feature("cd", "A", ShapeSquare), Feature("pp", "A", ShapeCell)>>

\* C2: a pair of a primary region and a target name-union has a longform row if
\* and only if its intersection area is strictly greater than
\* max(minAreaFinal, epsilon); in scenario B the row is there, with percentage 1.0,
\* exactly when minAreaFinal is below the target's area.
C2_ThresholdIsStrict ==
  LfBuilt =>
    /\ \A prow \in Processed : \A other_id \in Range(target_ids) \ {cur} :
         \A u \in Range(union_by_name(RowsWithId(candidate_gdf(gdf, prow.geometry), other_id))) :
           HasRow(lf, prow.nameCol, other_id, u[1])
             <=> inter_area(PInt(prow), u[2]) > Bound
    /\ (gdf = ScenarioB /\ cur = "cd" /\ args.buffer_feet = 0 /\ args.epsilon = 0) =>
         IF args.min_area_final < area(ShapeCell)
         THEN /\ Len(lf) = 1
              /\ lf[1].Percentage_Overlap = [num |-> 1, den |-> 1]
              /\ lf[1].Primary_Area = 100 * lf[1].Intersection_Area
         ELSE lf = <<>>

\* C2's case: a pair whose intersection area equals the bound has no row.
C2_Witness ==
  /\ LfBuilt
  /\ \E prow \in Processed : \E other_id \in Range(target_ids) \ {cur} :
       \E u \in Range(union_by_name(RowsWithId(candidate_gdf(gdf, prow.geometry), other_id))) :
         /\ inter_area(PInt(prow), u[2]) = Bound
         /\ Bound > 0
         /\ ~HasRow(lf, prow.nameCol, other_id, u[1])

\* The longform table of the current primary id had the buffer distance been 0.
LfUnbuffered ==
  build_longform_for_primary(gdf, cur, target_ids, 0, args.min_area_final, args.epsilon,
                             args.max_primaries).df

SameKeys(a, b) ==
  /\ a.Primary_Geography_NameCol = b.Primary_Geography_NameCol
  /\ a.Other_Geography_ID = b.Other_Geography_ID
  /\ a.Other_Geography_NameCol = b.Other_Geography_NameCol

NeverInflated ==
  \A i \in 1..Len(lf) : \E j \in 1..Len(LfUnbuffered) :
    /\ SameKeys(lf[i], LfUnbuffered[j])
    /\ ~PercLess(LfUnbuffered[j].Percentage_Overlap, lf[i].Percentage_Overlap)

\* C3 as claimed: with any nonzero buffer distance the percentage of a row is
\* not greater than the percentage of the same pair at buffer distance 0.
C3_AnyBufferNeverInflates ==
  (LfBuilt /\ args.buffer_feet # 0) => NeverInflated

\* C3 amended: with a negative buffer distance the percentage of a row is not
\* greater than the percentage of the same pair at buffer distance 0.
C3_NegativeBufferNeverInflates ==
  (LfBuilt /\ args.buffer_feet < 0) => NeverInflated

\* C3's case: a negative buffer cut the percentage of a row.
C3_Witness ==
  /\ LfBuilt
  /\ args.buffer_feet < 0
  /\ \E i \in 1..Len(lf) : \E j \in 1..Len(LfUnbuffered) :
       /\ SameKeys(lf[i], LfUnbuffered[j])
       /\ PercLess(lf[i].Percentage_Overlap, LfUnbuffered[j].Percentage_Overlap)

\* C4: every longform row has a percentage above 0, and at buffer distance 0 a
\* percentage of at most 100.
C4_PercentageBound ==
  LfBuilt =>
    \A i \in 1..Len(lf) :
      /\ lf[i].Percentage_Overlap.num > 0
      /\ lf[i].Percentage_Overlap.den > 0
      /\ args.buffer_feet = 0 =>
           lf[i].Percentage_Overlap.num <= 100 * lf[i].Percentage_Overlap.den

\* C4's case: at buffer distance 0 a row with a percentage of exactly 100 and one below.
C4_Witness ==
  /\ LfBuilt
  /\ args.buffer_feet = 0
  /\ \E i, j \in 1..Len(lf) :
       /\ lf[i].Percentage_Overlap = [num |-> 100, den |-> 1]
       /\ PercLess(lf[j].Percentage_Overlap, lf[i].Percentage_Overlap)

\* C5: the primary area of a row is the area of the unbuffered union of the
\* primary region's features, the intersection area is that of the buffered
\* region with the target's candidates, and the percentage is their ratio x 100.
C5_UnbufferedDenominator ==
  LfBuilt =>
    \A i \in 1..Len(lf) :
      /\ lf[i].Primary_Area = area(RegionGeom(cur, lf[i].Primary_Geography_NameCol))
      /\ lf[i].Percentage_Overlap.num * lf[i].Primary_Area
           = lf[i].Percentage_Overlap.den * lf[i].Intersection_Area * 100

\* C5's case: a row built with a buffer that changed the primary region's area.
C5_Witness ==
  /\ LfBuilt
  /\ args.buffer_feet # 0
  /\ \E i \in 1..Len(lf) :
       /\ area(buffer(RegionGeom(cur, lf[i].Primary_Geography_NameCol), args.buffer_feet))
            # lf[i].Primary_Area
       /\ lf[i].Intersection_Area < lf[i].Primary_Area

WideRowNames == { wf.rows[i][1] : i \in 1..Len(wf.rows) }
OneRowEach == \A i, j \in 1..Len(wf.rows) : wf.rows[i][1] = wf.rows[j][1] => i = j

\* C6 as claimed: without a cap the wide table has exactly one row per distinct
\* name of the primary type.
C6_OneRowPerRegion ==
  (WfBuilt /\ args.max_primaries = <<>>) =>
    /\ OneRowEach
    /\ WideRowNames = PrimaryNames(cur)

\* C6 amended: without a cap the wide table has exactly one row per distinct name
\* of the primary type whose dissolved geometry is not empty.
C6_OneRowPerNonEmptyRegion ==
  (WfBuilt /\ args.max_primaries = <<>>) =>
    /\ OneRowEach
    /\ WideRowNames = { n \in PrimaryNames(cur) : ~is_empty(RegionGeom(cur, n)) }

\* C6's case: a table of two rows, one of them with no surviving overlap.
C6_Witness ==
  /\ WfBuilt
  /\ args.max_primaries = <<>>
  /\ Len(wf.rows) = 2
  /\ Len(wf.columns) >= 2
  /\ \E i \in 1..Len(wf.rows) : \A j \in 2..Len(wf.columns) : wf.rows[i][j] = <<>>
  /\ \E i \in 1..Len(wf.rows) : \E j \in 2..Len(wf.columns) : wf.rows[i][j] # <<>>

\* C7: a primary region whose unbuffered area is at most epsilon has no longform
\* row and no wide row.
C7_DegenerateSkipped ==
  WfBuilt =>
    \A n \in PrimaryNames(cur) :
      area(RegionGeom(cur, n)) <= args.epsilon =>
        /\ \A i \in 1..Len(lf) : lf[i].Primary_Geography_NameCol # n
        /\ n \notin WideRowNames

\* C8: every target feature that intersects the geometry used in the
\* intersection test is among the candidates, so a pair whose intersection with
\* all the features of a name passes the threshold has its row.
C8_NoFalseNegatives ==
  LfBuilt =>
    \A prow \in Processed :
      /\ \A f \in Range(gdf) :
           (f.id \in Range(target_ids) \ {cur} /\ intersection(PInt(prow), f.geometry) # {})
             => f \in Range(candidate_gdf(gdf, prow.geometry))
      /\ \A other_id \in Range(target_ids) \ {cur} : \A n \in PrimaryNames(other_id) :
           inter_area(PInt(prow), RegionGeom(other_id, n)) > Bound
             => HasRow(lf, prow.nameCol, other_id, n)

\* C9: a failed write does not end the build: when main has ended, every primary
\* id has been processed.
C9_WriteFailureIsolated ==
  pc \in {"done", "crashed"} => idx = Len(primary_ids) + 1

Warned(gid) == \E i \in 1..Len(log) : log[i] = <<"WARNING", "No features for primary id", gid>>

\* C10: a requested primary id without features is logged as a warning and has
\* no longform and no wide file, and the build completes.
C10_EmptyPrimaryWarned ==
  pc = "done" =>
    \A gid \in Range(args.primary_only) \ Range(args.exclude_ids) :
      (\A f \in Range(gdf) : f.id # gid) =>
        /\ Warned(gid)
        /\ <<"longform", gid>> \notin DOMAIN files
        /\ <<"wide", gid>> \notin DOMAIN files

\* The collection without the features whose geometry is null or empty.
WithGeometry(geodf) == SelectSeq(geodf, LAMBDA f : ~is_empty(f.geometry))

\* C11: a null or empty geometry only drops the region or union it belongs to:
\* a primary region without geometry has no longform row and no wide row, and
\* (without a cap) both tables are the ones built from the collection without
\* the features that have no geometry; neither build stops.
C11_EmptyGeometrySkipped ==
  (WfBuilt /\ \E f \in Range(gdf) : is_empty(f.geometry)) =>
    /\ \A n \in PrimaryNames(cur) :
         is_empty(RegionGeom(cur, n)) =>
           /\ \A i \in 1..Len(lf) : lf[i].Primary_Geography_NameCol # n
           /\ n \notin WideRowNames
    /\ args.max_primaries = <<>> =>
         /\ lf = build_longform_for_primary(WithGeometry(gdf), cur, target_ids,
                   args.buffer_feet, args.min_area_final, args.epsilon, <<>>).df
         /\ wf = build_wide_for_primary(WithGeometry(gdf), cur, target_ids,
                   args.buffer_feet, args.min_area_final, args.epsilon, <<>>)

\* C11's case: a primary region and a target feature without geometry, next to
\* a primary region that has its longform rows and its wide row.
C11_Witness ==
  /\ WfBuilt
  /\ \E n \in PrimaryNames(cur) : is_empty(RegionGeom(cur, n))
  /\ \E f \in Range(gdf) : f.id \in Range(target_ids) \ {cur} /\ is_empty(f.geometry)
  /\ lf # <<>>
  /\ \E i \in 1..Len(wf.rows) : \E j \in 2..Len(wf.columns) : wf.rows[i][j] # <<>>

\* C12: the longform table is ordered by primary name ascending, then other id
\* ascending, then percentage descending: of two adjacent rows the earlier one
\* is not greater under that key.
C12_LongformOrdered ==
  pc = "save_longform" =>
    \A i \in 1..(Len(lf) - 1) :
      \/ NameLess(lf[i].Primary_Geography_NameCol, lf[i + 1].Primary_Geography_NameCol)
      \/ /\ lf[i].Primary_Geography_NameCol = lf[i + 1].Primary_Geography_NameCol
         /\ IdLess(lf[i].Other_Geography_ID, lf[i + 1].Other_Geography_ID)
      \/ /\ lf[i].Primary_Geography_NameCol = lf[i + 1].Primary_Geography_NameCol
         /\ lf[i].Other_Geography_ID = lf[i + 1].Other_Geography_ID
         /\ ~PercLess(lf[i].Percentage_Overlap, lf[i + 1].Percentage_Overlap)

\* C12's case: two adjacent rows of one primary region and one other id that
\* were accumulated in the order of the target names (A before B) and stand in
\* the order of their percentages (B, the greater, before A).
C12_Witness ==
  /\ LfBuilt
  /\ \E i \in 1..(Len(lf) - 1) :
       /\ lf[i].Primary_Geography_NameCol = lf[i + 1].Primary_Geography_NameCol
       /\ lf[i].Other_Geography_ID = lf[i + 1].Other_Geography_ID
       /\ NameLess(lf[i + 1].Other_Geography_NameCol, lf[i].Other_Geography_NameCol)
       /\ PercLess(lf[i + 1].Percentage_Overlap, lf[i].Percentage_Overlap)

\* The names of another id whose candidate features, united by name, overlap the
\* primary region of a name by more than the bound.
Surviving(p_name, other_id) ==
  LET p_geom == RegionGeom(cur, p_name)
      near == { f \in Range(candidate_gdf(gdf, p_geom)) : f.id = other_id }
  IN  { n \in { f.nameCol : f \in near } :
          area(p_geom_for_intersection(p_geom, args.buffer_feet)
                 \cap UNION { f.geometry : f \in { r \in near : r.nameCol = n } }) > Bound }

\* C13: a cell of the wide table holds the names that survive the threshold,
\* sorted ascending, each once, joined by ";" (the empty string when none
\* survives), and every row has one cell for every target id but the primary's.
C13_WideCells ==
  (WfBuilt /\ wf.rows # <<>>) =>
    /\ { wf.columns[j] : j \in 2..Len(wf.columns) } = Range(target_ids) \ {cur}
    /\ \A i \in 1..Len(wf.rows) :
         /\ Len(wf.rows[i]) = Len(wf.columns)
         /\ \A j \in 2..Len(wf.columns) :
              wf.rows[i][j] = join(SortedNames(Surviving(wf.rows[i][1], wf.columns[j])))

\* C13's case: a table with a cell of two names and a cell that is empty because
\* the primary region has no candidate feature of that id.
C13_Witness ==
  /\ WfBuilt
  /\ \E i \in 1..Len(wf.rows) : \E j \in 2..Len(wf.columns) :
       wf.rows[i][j] = <<"A", ";", "B">>
  /\ \E i \in 1..Len(wf.rows) : \E j \in 2..Len(wf.columns) :
       /\ wf.rows[i][j] = <<>>
       /\ \A f \in Range(candidate_gdf(gdf, RegionGeom(cur, wf.rows[i][1]))) :
            f.id # wf.columns[j]

\* C14: the columns of the wide table are the primary id's column and then every
\* other target id exactly once, in ascending order, whatever the order and the
\* repetitions of the target id list.
C14_ColumnsOnceInOrder ==
  (WfBuilt /\ wf.rows # <<>>) =>
    /\ wf.columns[1] = cur
    /\ { wf.columns[j] : j \in 2..Len(wf.columns) } = Range(target_ids) \ {cur}
    /\ \A j \in 2..(Len(wf.columns) - 1) : IdLess(wf.columns[j], wf.columns[j + 1])

\* C15: no longform row has the primary id as its other id, and the wide table
\* has no overlap column of the primary id, also when the target id list holds
\* the primary id.
C15_SelfExcluded ==
  /\ pc = "save_longform" =>
       \A i \in 1..Len(lf) :
         /\ lf[i].Primary_Geography_ID = cur
         /\ lf[i].Other_Geography_ID # lf[i].Primary_Geography_ID
  /\ WfBuilt => \A j \in 2..Len(wf.columns) : wf.columns[j] # cur

\* C15's case: the primary id is a target id, and both tables have content.
C15_Witness ==
  /\ WfBuilt
  /\ cur \in Range(target_ids)
  /\ lf # <<>>
  /\ Len(wf.columns) >= 2
  /\ wf.rows # <<>>

\* The tables of the current primary id had the minimum final area been m.
LfAt(m) ==
  build_longform_for_primary(gdf, cur, target_ids, args.buffer_feet, m, args.epsilon,
                             args.max_primaries).df
WfAt(m) ==
  build_wide_for_primary(gdf, cur, target_ids, args.buffer_feet, m, args.epsilon,
                         args.max_primaries)

\* C16: with the same input, buffer and epsilon, the longform rows at a minimum
\* final area are among the rows at any smaller one, and the names of every wide
\* cell are among the names of the same cell at any smaller one.
C16_ThresholdMonotone ==
  WfBuilt =>
    \A m \in { n \in MinAreaChoices : n < args.min_area_final } :
      LET below == WfAt(m)
      IN  /\ Range(lf) \subseteq Range(LfAt(m))
          /\ Len(wf.rows) = Len(below.rows)
          /\ \A i \in 1..Len(wf.rows) :
               /\ wf.rows[i][1] = below.rows[i][1]
               /\ \A j \in 2..Len(wf.columns) :
                    Split(wf.rows[i][j]) \subseteq Split(below.rows[i][j])

\* C16's case: a greater minimum final area that removed a longform row and a
\* name of a wide cell and left others.
C16_Witness ==
  /\ WfBuilt
  /\ lf # <<>>
  /\ \E m \in { n \in MinAreaChoices : n < args.min_area_final } :
       /\ Range(lf) # Range(LfAt(m))
       /\ \E i \in 1..Len(wf.rows) : \E j \in 2..Len(wf.columns) :
            /\ wf.rows[i][j] # <<>>
            /\ Split(wf.rows[i][j]) # Split(WfAt(m).rows[i][j])

\* The features of an id and a name, and the sum of the areas of some features.
Parts(an_id, a_name) == SelectSeq(gdf, LAMBDA f : f.id = an_id /\ f.nameCol = a_name)
SumAreas(parts) ==
  LET acc[k \in 0..Len(parts)] ==
        IF k = 0 THEN 0 ELSE acc[k - 1] + area(parts[k].geometry)
  IN  acc[Len(parts)]
ShareNoArea(parts) ==
  \A i, j \in 1..Len(parts) : i # j => parts[i].geometry \cap parts[j].geometry = {}

\* C17: dissolve_by_name of the features of one id has exactly one region per
\* distinct name (the empty name too); its geometry is the union of the
\* features of that name, so its area is at least that of every part and at most
\* the sum of the parts' areas, and equal to the sum exactly when no two parts
\* share area; the empty input gives the empty output; in scenario A the one
\* region has the area of two squares.
C17_DissolveByName ==
  /\ dissolve_by_name(<<>>) = <<>>
  /\ pc = "save_longform" =>
       LET d == dissolve_by_name(RowsWithId(gdf, cur))
       IN  /\ Len(d) = Cardinality(PrimaryNames(cur))
           /\ { d[k].nameCol : k \in 1..Len(d) } = PrimaryNames(cur)
           /\ \A k \in 1..Len(d) :
                LET parts == Parts(cur, d[k].nameCol)
                IN  /\ d[k].geometry = UNION { parts[i].geometry : i \in 1..Len(parts) }
                    /\ \A i \in 1..Len(parts) : area(d[k].geometry) >= area(parts[i].geometry)
                    /\ area(d[k].geometry) <= SumAreas(parts)
                    /\ area(d[k].geometry) = SumAreas(parts) <=> ShareNoArea(parts)
           /\ gdf = ScenarioA =>
                /\ Len(d) = 1
                /\ d[1].nameCol = "A"
                /\ area(d[1].geometry) = 2 * area(ShapeCell)

\* C17's case: a region of two parts that overlap: its area is above that of
\* either part and below their sum.
C17_Witness ==
  /\ LfBuilt
  /\ \E n \in PrimaryNames(cur) :
       /\ Len(Parts(cur, n)) = 2
       /\ area(RegionGeom(cur, n)) < SumAreas(Parts(cur, n))
       /\ \A i \in 1..2 : area(RegionGeom(cur, n)) > area(Parts(cur, n)[i].geometry)
       /\ \E i \in 1..Len(lf) : /\ lf[i].Primary_Geography_NameCol = n
                                 /\ lf[i].Primary_Area = area(RegionGeom(cur, n))

\* The subsets union_by_name is applied to: the candidates of a primary region
\* with one id; and, beyond those, all the features with one id.
CandidateSubsets ==
  { RowsWithId(candidate_gdf(gdf, prow.geometry), other_id) :
      prow \in { r \in Range(Regions) : ~is_empty(r.geometry) }, other_id \in Range(target_ids) }
Subsets == CandidateSubsets \cup { RowsWithId(gdf, an_id) : an_id \in Range(target_ids) }

\* C18: union_by_name of a subset has exactly one pair per distinct name of the
\* subset, whose geometry is the union of all the subset's features of that
\* name; the empty subset gives the empty list.
C18_UnionByName ==
  /\ union_by_name(<<>>) = <<>>
  /\ pc = "save_longform" =>
       \A subset \in Subsets :
         LET u == union_by_name(subset)
         IN  /\ Len(u) = Cardinality({ f.nameCol : f \in Range(subset) })
             /\ { u[k][1] : k \in 1..Len(u) } = { f.nameCol : f \in Range(subset) }
             /\ \A k \in 1..Len(u) :
                  u[k][2] = UNION { f.geometry : f \in { r \in Range(subset) : r.nameCol = u[k][1] } }

\* C18's case: two candidates of one name that are disjoint fragments, and the
\* longform row of their union, whose intersection area is above either's.
C18_Witness ==
  /\ LfBuilt
  /\ args.buffer_feet = 0
  /\ \E subset \in CandidateSubsets :
       /\ Len(subset) = 2
       /\ subset[1].nameCol = subset[2].nameCol
       /\ subset[1].geometry \cap subset[2].geometry = {}
       /\ \E i \in 1..Len(lf) :
            /\ lf[i].Other_Geography_ID = subset[1].id
            /\ lf[i].Other_Geography_NameCol = subset[1].nameCol
            /\ lf[i].Intersection_Area = area(subset[1].geometry) + area(subset[2].geometry)

\* C19: an excluded id is no primary id and no target id, has no longform and no
\* wide file, is the other id of no longform row and names no wide column, also
\* when --primary-only or --targets name it and the collection has its features.
C19_ExcludedEntirely ==
  \A x \in Range(args.exclude_ids) :
    /\ x \notin Range(primary_ids) \cup Range(target_ids)
    /\ <<"longform", x>> \notin DOMAIN files
    /\ <<"wide", x>> \notin DOMAIN files
    /\ \A i \in 1..Len(lf) :
         lf[i].Other_Geography_ID # x /\ lf[i].Primary_Geography_ID # x
    /\ \A j \in 1..Len(wf.columns) : wf.columns[j] # x
    /\ \A path \in DOMAIN files :
         path[1] = "longform" =>
           \A i \in 1..Len(files[path]) : files[path][i].Other_Geography_ID # x

\* C19's case: a completed build with files whose excluded id has features that
\* overlap a primary region and is named by --targets or --primary-only.
C19_Witness ==
  /\ pc = "done"
  /\ <<"longform", "cd">> \in DOMAIN files
  /\ <<"wide", "cd">> \in DOMAIN files
  /\ \E x \in Range(args.exclude_ids) :
       /\ x \in Range(args.targets) \cup Range(args.primary_only)
       /\ \E f \in Range(gdf) :
            f.id = x /\ f.geometry \cap RegionGeom("cd", "A") # {}

MetaPath == <<"crosswalks_meta", "json">>

\* C20: a build that completes has written the metadata record once, after the
\* last primary id, and the record holds the buffer distance, the minimum final
\* area, epsilon, the excluded ids, the cap on the primary regions when one was
\* given, and the resolved primary and target ids.
C20_MetaRecordsParameters ==
  /\ MetaPath \in DOMAIN files => pc = "done" /\ idx = Len(primary_ids) + 1
  /\ pc = "done" =>
       /\ MetaPath \in DOMAIN files
       /\ Cardinality({ i \in 1..Len(log) : log[i][2] = "Saved crosswalks meta" }) = 1
       /\ files[MetaPath].buffer_feet = args.buffer_feet
       /\ files[MetaPath].min_intersection_area_final = args.min_area_final
       /\ files[MetaPath].epsilon = args.epsilon
       /\ files[MetaPath].exclude_ids = args.exclude_ids
       /\ files[MetaPath].primary_ids = primary_ids
       /\ files[MetaPath].target_ids = target_ids
       /\ args.max_primaries # <<>> =>
            /\ "max_primaries" \in DOMAIN files[MetaPath]
            /\ files[MetaPath].max_primaries = args.max_primaries

\* C21: once the longform (the wide) table of a primary id has been handled,
\* its file exists exactly when the table is not empty, and holds the table; an
\* empty table leaves no file, is logged as information, and the loop goes on
\* to the wide table and to the next primary id.
C21_FileIffNonEmpty ==
  /\ pc \in {"build_wide", "save_wide"} =>
       /\ <<"longform", cur>> \in DOMAIN files <=> lf # <<>>
       /\ lf # <<>> => files[<<"longform", cur>>] = lf
       /\ lf = <<>> =>
            \E i \in 1..Len(log) :
              log[i] = <<"INFO", "No longform rows produced for primary", cur>>
  /\ (pc \in {"build_longform", "save_meta", "done"} /\ idx > 1) =>
       /\ <<"longform", primary_ids[idx - 1]>> \in DOMAIN files <=> lf # <<>>
       /\ <<"wide", primary_ids[idx - 1]>> \in DOMAIN files <=> wf.rows # <<>>
       /\ wf.rows # <<>> => files[<<"wide", primary_ids[idx - 1]>>] = wf
       /\ wf.rows = <<>> =>
            \E i \in 1..Len(log) :
              log[i] = <<"INFO", "No wide rows produced for primary", primary_ids[idx - 1]>>
  /\ \A path \in DOMAIN files :
       path[1] \in {"longform", "wide"} =>
         /\ path[2] \in Range(primary_ids)
         /\ path[1] = "longform" => files[path] # <<>>
         /\ path[1] = "wide" => files[path].rows # <<>>

\* C21's case: a completed build in which a primary id had two empty tables and
\* no file, and a later primary id has its wide file.
C21_Witness ==
  /\ pc = "done"
  /\ \E i, j \in 1..Len(primary_ids) :
       /\ i < j
       /\ <<"longform", primary_ids[i]>> \notin DOMAIN files
       /\ <<"wide", primary_ids[i]>> \notin DOMAIN files
       /\ <<"wide", primary_ids[j]>> \in DOMAIN files

\* C22: make_run.py starts the crosswalk stage only after the bounds stage has
\* exited with status 0, and the run directory and the all_boundaries.geojson
\* it hands to build_crosswalks.py are those of the run directory that this
\* bounds stage made, never a directory that an earlier run left.
C22_CrosswalksOnOwnRunDir ==
  crosswalks_cmd # <<>> =>
    /\ gb_pc = "exited"
    /\ gb_rc = 0
    /\ run_dir # <<>>
    /\ crosswalks_cmd[1].run_dir = run_dir[1]
    /\ crosswalks_cmd[1].boundaries = <<run_dir[1], "all_boundaries.geojson">>

\* C23: process_dataset returns a frame exactly when the status of the returned
\* meta is "ok": with no frame the status is an error status, neither "pending"
\* nor "ok", and the error text is not null; with a frame the error is null.
\* The main loop goes on after a failing dataset: every dataset before the one
\* at hand has its entry in run_meta, in the order of the datasets, and the
\* frames kept are those of the entries with status "ok".
C23_FrameIffStatusOk ==
  /\ result # <<>> =>
       /\ result[1].gdf # <<>> <=> result[1].meta.status = "ok"
       /\ result[1].gdf = <<>> =>
            /\ result[1].meta.status \notin {"pending", "ok"}
            /\ result[1].meta.error # <<>>
       /\ result[1].gdf # <<>> => result[1].meta.error = <<>>
  /\ gb_pc \in {"loop", "combine", "exited"} =>
       /\ Len(run_meta.datasets) = ds_idx - 1
       /\ \A i \in 1..Len(run_meta.datasets) :
            /\ run_meta.datasets[i].id = datasets[i].id
            /\ run_meta.datasets[i].status \notin {"pending"}
            /\ run_meta.datasets[i].status = "ok" <=> run_meta.datasets[i].error = <<>>
       /\ Len(all_processed_gdfs) =
            Cardinality({i \in 1..Len(run_meta.datasets) : run_meta.datasets[i].status = "ok"})
  /\ gb_pc = "combine" => Len(run_meta.datasets) = Len(datasets)

\* A first dataset failed with an error status and the loop went on to a
\* dataset that was processed.
C23_Witness ==
  /\ gb_pc = "combine"
  /\ Len(run_meta.datasets) >= 2
  /\ run_meta.datasets[1].status \notin {"pending", "ok"}
  /\ run_meta.datasets[1].error # <<>>
  /\ run_meta.datasets[Len(run_meta.datasets)].status = "ok"
  /\ result # <<>>
  /\ result[1].gdf # <<>>
  /\ Len(all_processed_gdfs) = 1

====
